---- MODULE Spec2Model ----
(***************************************************************************)
(* kko-backend (src/main.py): a FastAPI service that takes a PDF upload,   *)
(* extracts its text, has a language model summarise it and list the       *)
(* departments it names, stores the result in MongoDB, mails the summary   *)
(* to the departments in a background task, and answers questions and      *)
(* lists the stored records.                                               *)
(*                                                                         *)
(* A string is a sequence of chunks (one-character strings unless a chunk  *)
(* stands for a fixed piece of text).  A JSON scalar is a record           *)
(* [t, s]: t is its type ("str", "null", "num"), s the text of a string.   *)
(***************************************************************************)
EXTENDS Integers, Sequences, FiniteSets, TLC

VARIABLES store, now, batches, issued, last, running

vars == <<store, now, batches, issued, last, running>>

\* ------------------------------------------------------------------ bounds
MaxRecords == 2
MaxDepts == 2
MaxListed == 12
MaxAnswerWords == 34
MaxPage == 4

\* ------------------------------------------------------- program constants
MinWords == 20
MaxWords == 30
DefaultLimit == 5
MaxLimit == 50
ObjectIdLen == 24

\* ----------------------------------------------------------------- strings
Min2(a, b) == IF a < b THEN a ELSE b

Upper == <<"A", "B", "C", "D", "E", "F", "P", "T", "X">>
Lower == <<"a", "b", "c", "d", "e", "f", "p", "t", "x">>

\* str.lower() on one character
LowerChar(c) ==
    IF \E i \in 1..Len(Upper) : Upper[i] = c
    THEN Lower[CHOOSE i \in 1..Len(Upper) : Upper[i] = c]
    ELSE c

\* str.lower()
LowerStr(s) == [i \in 1..Len(s) |-> LowerChar(s[i])]

\* str.upper() on one character
UpperChar(c) ==
    IF \E i \in 1..Len(Lower) : Lower[i] = c
    THEN Upper[CHOOSE i \in 1..Len(Lower) : Lower[i] = c]
    ELSE c

\* str.upper()
UpperStr(s) == [i \in 1..Len(s) |-> UpperChar(s[i])]

\* str.endswith(suffix)
EndsWith(s, suffix) ==
    /\ Len(s) >= Len(suffix)
    /\ SubSeq(s, Len(s) - Len(suffix) + 1, Len(s)) = suffix

DotPdf == <<".", "p", "d", "f">>

\* the mutant compares the name as given, without lower()
IsPdfNameCaseSensitive(filename) == EndsWith(filename, DotPdf)

\* file.filename.lower().endswith(".pdf")
IsPdfName(filename) == EndsWith(LowerStr(filename), DotPdf)

Whitespace == {" ", "\n", "\t"}

\* the header check of email.message.EmailMessage: a value with a line
\* feed or carriage return is refused with ValueError
HasLineBreak(s) == \E i \in 1..Len(s) : s[i] \in {"\n", "\r"}

RECURSIVE LStrip(_)
LStrip(s) ==
    IF s # <<>> /\ Head(s) \in Whitespace THEN LStrip(Tail(s)) ELSE s

RECURSIVE RStrip(_)
RStrip(s) ==
    IF s # <<>> /\ s[Len(s)] \in Whitespace
    THEN RStrip(SubSeq(s, 1, Len(s) - 1))
    ELSE s

\* str.strip()
Strip(s) == LStrip(RStrip(s))

\* the index of the first whitespace character of s, Len(s) + 1 if none
FirstWhitespace(s) ==
    CHOOSE j \in 1..(Len(s) + 1) :
        /\ j = Len(s) + 1 \/ s[j] \in Whitespace
        /\ \A k \in 1..(j - 1) : s[k] \notin Whitespace

\* the indices at which a word of s starts
WordStarts(s) ==
    {i \in 1..Len(s) : s[i] \notin Whitespace /\ (i = 1 \/ s[i - 1] \in Whitespace)}

\* str.split(): the maximal runs of non-whitespace characters, in order
RECURSIVE Split(_)
Split(s) ==
    LET t == LStrip(s)
        e == FirstWhitespace(t)
    IN IF t = <<>> THEN <<>>
       ELSE <<SubSeq(t, 1, e - 1)>> \o Split(SubSeq(t, e, Len(t)))

\* " ".join(words)
RECURSIVE Join(_)
Join(words) ==
    IF words = <<>> THEN <<>>
    ELSE IF Len(words) = 1 THEN words[1]
    ELSE words[1] \o <<" ">> \o Join(Tail(words))

\* ------------------------------------------------------------ JSON scalars
Null == [t |-> "null", s |-> <<>>]
Num == [t |-> "num", s |-> <<>>]
Str(x) == [t |-> "str", s |-> x]

IsStr(v) == v.t = "str"

\* Python truthiness of a str-or-None value, as in `if dept.get("email")`
Truthy(v) == v.t = "str" /\ v.s # <<>>

\* --------------------------------------------------------------- ObjectId
HexLower == {"0", "1", "2", "3", "4", "5", "6", "7", "8", "9",
             "a", "b", "c", "d", "e", "f"}
HexUpper == {"A", "B", "C", "D", "E", "F"}

HexDigits == <<"0", "1", "2", "3", "4", "5", "6", "7", "8", "9",
               "a", "b", "c", "d", "e", "f">>

\* bson.ObjectId.is_valid on a string: 24 hexadecimal characters
ObjectIdValid(s) ==
    /\ Len(s) = ObjectIdLen
    /\ \A i \in 1..Len(s) : s[i] \in HexLower \cup HexUpper

\* ObjectId(s) for a valid s: the identifier, which str() renders in lower case
ObjectIdOf(s) == LowerStr(s)

\* str(result.inserted_id) of the n-th identifier the driver generates
NewObjectId(n) ==
    [i \in 1..ObjectIdLen |->
        IF i = 1 THEN "a"
        ELSE IF i = ObjectIdLen THEN HexDigits[(n % 16) + 1]
        ELSE IF i = ObjectIdLen - 1 THEN HexDigits[((n \div 16) % 16) + 1]
        ELSE "0"]

\* ------------------------------------------------- extract_text_from_pdf
\* docai is what the Document AI service does with the request: it raises,
\* or returns a document with the given text.
extract_text_from_pdf(docai) ==
    IF docai.raises \/ docai.text = <<>>
    THEN [ok |-> FALSE, text |-> <<>>]
    ELSE [ok |-> TRUE, text |-> docai.text]

\* ---------------------------------------------------- process_with_gpt4o
\* llm is what the completion service does: it raises, or returns content
\* that parses as JSON or not; a parsed value is a dict or not, with a set of
\* keys, a summary value, and a departments value that is a list or not.
\* A department entry is [isdict, keys, name, email].
EntryOk(d) == d.isdict /\ "name" \in d.keys /\ "email" \in d.keys

DepartmentsOk(isList, departments) ==
    isList /\ \A i \in 1..Len(departments) : EntryOk(departments[i])

LlmShapeOk(llm) ==
    /\ ~llm.raises
    /\ llm.parses
    /\ llm.isdict /\ "summary" \in llm.keys /\ "departments" \in llm.keys
    /\ IsStr(llm.summary)
    /\ DepartmentsOk(llm.deptsIsList, llm.departments)

process_with_gpt4o(llm) ==
    IF LlmShapeOk(llm)
    THEN [ok |-> TRUE, summary |-> llm.summary.s, departments |-> llm.departments]
    ELSE [ok |-> FALSE, summary |-> <<>>, departments |-> <<>>]

\* ---------------------------------------------------- prepare_email_data
\* the text an f-string shows for a value
Text(v) == IF v.t = "str" THEN v.s ELSE IF v.t = "null" THEN <<"None">> ELSE <<"0">>

Subject(name, filename) ==
    <<"Notice Summary for ">> \o Text(name) \o <<": ">> \o filename

EmailEntry(dept, summary, filename) ==
    [department |-> dept.name,
     summary |-> summary,
     subject |-> Subject(dept.name, filename),
     to |-> dept.email]

\* the mutant tests `dept["email"] is not None` in place of truthiness
RECURSIVE prepare_email_data_not_none(_, _, _)
prepare_email_data_not_none(departments, summary, filename) ==
    IF departments = <<>> THEN <<>>
    ELSE (IF Head(departments).email.t # "null"
          THEN <<EmailEntry(Head(departments), summary, filename)>>
          ELSE <<>>)
         \o prepare_email_data_not_none(Tail(departments), summary, filename)

RECURSIVE prepare_email_data(_, _, _)
prepare_email_data(departments, summary, filename) ==
    IF departments = <<>> THEN <<>>
    ELSE (IF Truthy(Head(departments).email)
          THEN <<EmailEntry(Head(departments), summary, filename)>>
          ELSE <<>>)
         \o prepare_email_data(Tail(departments), summary, filename)

\* -------------------------------------------------------- SummaryResponse
\* pydantic validation of departments: List[Dict[str, str]]: every value of
\* every department dict must be a string
SummaryResponseValid(departments) ==
    \A i \in 1..Len(departments) :
        IsStr(departments[i].name) /\ IsStr(departments[i].email)

\* ------------------------------------------------------------- responses
NoReq ==
    [filename |-> <<>>, docai |-> [raises |-> FALSE, text |-> <<>>],
     llm |-> [raises |-> FALSE, parses |-> FALSE, isdict |-> FALSE, keys |-> {},
              summary |-> Null, deptsIsList |-> FALSE, departments |-> <<>>],
     insertOk |-> FALSE, mongo_id |-> <<>>,
     reply |-> [raises |-> FALSE, content |-> <<>>],
     page |-> 0, limit |-> 0, dbOk |-> FALSE]

NoBody ==
    [filename |-> <<>>, departments |-> <<>>, summary |-> <<>>, mongo_id |-> <<>>,
     answer |-> <<>>, data |-> <<>>, page |-> 0, limit |-> 0, total |-> 0,
     total_pages |-> 0, has_next |-> FALSE, has_prev |-> FALSE]

Response(op, req, status, detail, calls, body) ==
    [op |-> op, req |-> req, status |-> status, detail |-> detail,
     calls |-> calls, body |-> body]

\* ------------------------------------------------------------------ state
\* store    the MongoDB collection, in insertion order
\* now      the clock datetime.utcnow() reads; it advances between inserts
\* batches  the background tasks that FastAPI runs after a response is sent
\* issued   the bodies of the successful /upload responses
\* last     the latest request and its response
\* running  FALSE once the process has shut down
Init ==
    /\ store = <<>>
    /\ now = 1
    /\ batches = <<>>
    /\ issued = {}
    /\ last = Response("none", NoReq, 0, "", {}, NoBody)
    /\ running = TRUE

\* ---------------------------------------------------------------- /upload
Document(id, filename, text, summary, departments, timestamp, email_data) ==
    [id |-> id, filename |-> filename, extracted_text |-> text,
     summary |-> summary, departments |-> departments, timestamp |-> timestamp,
     email_data |-> email_data]

UploadBody(filename, departments, summary, id) ==
    [NoBody EXCEPT !.filename = filename, !.departments = departments,
                   !.summary = summary, !.mongo_id = id]

\* the mutant awaits the sends in the handler, before the response
BatchAwaited(id, email_data) ==
    [id |-> id, emails |-> email_data,
     attempts |-> [i \in 1..Len(email_data) |-> [index |-> i, outcome |-> "sent"]],
     pos |-> Len(email_data) + 1, status |-> "done"]

Batch(id, email_data) ==
    [id |-> id, emails |-> email_data, attempts |-> <<>>, pos |-> 1,
     status |-> "running"]

upload_pdf(filename, docai, llm, insertOk) ==
    LET req == [NoReq EXCEPT !.filename = filename, !.docai = docai,
                             !.llm = llm, !.insertOk = insertOk]
        ex == extract_text_from_pdf(docai)
        pr == process_with_gpt4o(llm)
        email_data == prepare_email_data(pr.departments, pr.summary, filename)
        id == NewObjectId(Len(store) + 1)
        doc == Document(id, filename, ex.text, pr.summary, pr.departments, now, email_data)
    IN
    /\ running
    /\ Len(store) < MaxRecords
    /\ IF ~IsPdfName(filename)
       THEN /\ last' = Response("upload", req, 400, "Only PDF files are allowed",
                                {}, NoBody)
            /\ UNCHANGED <<store, now, batches, issued>>
       ELSE IF ~ex.ok
       THEN /\ last' = Response("upload", req, 500, "Failed to extract text from PDF",
                                {"extract"}, NoBody)
            /\ UNCHANGED <<store, now, batches, issued>>
       ELSE IF ~pr.ok
       THEN /\ last' = Response("upload", req, 500,
                                "Failed to process text with Azure OpenAI",
                                {"extract", "summarize"}, NoBody)
            /\ UNCHANGED <<store, now, batches, issued>>
       ELSE IF ~DepartmentsOk(TRUE, pr.departments)
       THEN /\ last' = Response("upload", req, 500,
                                "Invalid departments format returned from Azure OpenAI",
                                {"extract", "summarize"}, NoBody)
            /\ UNCHANGED <<store, now, batches, issued>>
       ELSE IF ~insertOk
       THEN \* insert_one raises: the scheduled task is dropped with the request
            /\ last' = Response("upload", req, 500, "Internal server error",
                                {"extract", "summarize", "schedule", "insert"}, NoBody)
            /\ UNCHANGED <<store, now, batches, issued>>
       ELSE /\ store' = Append(store, doc)
            /\ now' = now + 1
            /\ IF SummaryResponseValid(pr.departments)
               THEN /\ last' = Response("upload", req, 200, "",
                                        {"extract", "summarize", "schedule", "insert"},
                                        UploadBody(filename, pr.departments, pr.summary, id))
                    /\ issued' = issued \cup
                         {UploadBody(filename, pr.departments, pr.summary, id)}
                    /\ batches' = Append(batches, Batch(id, email_data))
               ELSE \* SummaryResponse(...) raises ValidationError after the insert
                    /\ last' = Response("upload", req, 500, "Internal server error",
                                        {"extract", "summarize", "schedule", "insert"},
                                        NoBody)
                    /\ UNCHANGED <<batches, issued>>
    /\ UNCHANGED running

\* ------------------------------------------------------ send_emails_async
\* One step of the background task of batch b: the empty-list return, or one
\* iteration of the loop.  The headers are set before the try block, so a
\* ValueError from a header leaves the function; an exception of
\* aiosmtplib.send is caught and logged.
Composes(e) == ~HasLineBreak(e.to.s) /\ ~HasLineBreak(e.subject)

send_emails_async(b, smtpOk) ==
    LET bt == batches[b]
        i == bt.pos
    IN
    /\ running
    /\ bt.status = "running"
    /\ IF bt.emails = <<>>
       THEN batches' = [batches EXCEPT ![b].status = "done"]
       ELSE IF ~Composes(bt.emails[i])
       THEN batches' = [batches EXCEPT ![b].status = "aborted"]
       ELSE batches' =
              [batches EXCEPT
                 ![b].attempts = Append(@, [index |-> i,
                                            outcome |-> IF smtpOk THEN "sent" ELSE "failed"]),
                 ![b].pos = i + 1,
                 ![b].status = IF i = Len(bt.emails) THEN "done" ELSE "running"]
    /\ UNCHANGED <<store, now, issued, last, running>>

\* ------------------------------------------------------------------ /chat
\* collection.find_one({"_id": oid})
FindOne(oid) ==
    IF \E i \in 1..Len(store) : store[i].id = oid
    THEN <<store[CHOOSE i \in 1..Len(store) : store[i].id = oid]>>
    ELSE <<>>

\* the mutant truncates to one word more
PostProcessOffByOne(content) ==
    LET answer == Strip(content)
        words == Split(answer)
    IN IF Len(words) > MaxWords + 1
       THEN Join(SubSeq(words, 1, MaxWords + 1))
       ELSE answer

\* lines 292-297: strip, count the words, keep the first 30 when there are more
PostProcess(content) ==
    LET answer == Strip(content)
        words == Split(answer)
        word_count == Len(words)
    IN IF word_count < MinWords \/ word_count > MaxWords
       THEN IF word_count > MaxWords
            THEN Join(SubSeq(words, 1, MaxWords))
            ELSE answer
       ELSE answer

\* answer_question: the status the request ends with
ChatStatus(mongo_id, reply, dbOk) ==
    IF ~ObjectIdValid(mongo_id) THEN 500
    ELSE IF ~dbOk THEN 500
    ELSE IF FindOne(ObjectIdOf(mongo_id)) = <<>> THEN 404
    ELSE IF reply.raises THEN 500
    ELSE 200

chat(mongo_id, reply, dbOk) ==
    LET req == [NoReq EXCEPT !.mongo_id = mongo_id, !.reply = reply, !.dbOk = dbOk]
        st == ChatStatus(mongo_id, reply, dbOk)
        found == ObjectIdValid(mongo_id) /\ dbOk /\ FindOne(ObjectIdOf(mongo_id)) # <<>>
        calls == (IF ObjectIdValid(mongo_id) THEN {"find"} ELSE {})
                 \cup (IF found THEN {"llm"} ELSE {})
    IN
    /\ running
    /\ last' = Response("chat", req, st,
                        IF st = 404 THEN "Document not found"
                        ELSE IF st = 500 THEN "Failed to answer question" ELSE "",
                        calls,
                        IF st = 200
                        THEN [NoBody EXCEPT !.answer = PostProcess(reply.content)]
                        ELSE NoBody)
    /\ UNCHANGED <<store, now, batches, issued, running>>

\* ------------------------------------------------------------------- /all
Remove(s, i) == SubSeq(s, 1, i - 1) \o SubSeq(s, i + 1, Len(s))

\* collection.find().sort("timestamp", -1)
RECURSIVE SortNewestFirst(_)
SortNewestFirst(docs) ==
    IF docs = <<>> THEN <<>>
    ELSE LET i == CHOOSE k \in 1..Len(docs) :
                     \A j \in 1..Len(docs) : docs[k].timestamp >= docs[j].timestamp
         IN <<docs[i]>> \o SortNewestFirst(Remove(docs, i))

\* the mutant clamps a page size below 1 up to 1
EffectiveLimitClamped(limit) ==
    IF limit < 1 THEN 1 ELSE IF limit > MaxLimit THEN MaxLimit ELSE limit

\* lines 399-402
EffectiveLimit(limit) ==
    IF limit < 1 THEN DefaultLimit ELSE IF limit > MaxLimit THEN MaxLimit ELSE limit

\* lines 397-398
EffectivePage(page) == IF page < 1 THEN 1 ELSE page

\* line 415
TotalPages(total, limit) == IF limit # 0 THEN (total + limit - 1) \div limit ELSE 1

\* the mutant skips one page too many
SkipPageTimesLimit(page, limit) == page * limit

\* line 407
Skip(page, limit) == (page - 1) * limit

\* .skip(skip).limit(limit) on a sorted cursor
SkipLimit(docs, skip, limit) ==
    IF skip >= Len(docs) THEN <<>>
    ELSE SubSeq(docs, skip + 1, Min2(skip + limit, Len(docs)))

\* the body of a successful listing: lines 397-425
ListBody(page, limit) ==
    LET p == EffectivePage(page)
        l == EffectiveLimit(limit)
        total == Len(store)
        skip == Skip(p, l)
        docs == SkipLimit(SortNewestFirst(store), skip, l)
        total_pages == TotalPages(total, l)
    IN [NoBody EXCEPT !.data = docs, !.page = p, !.limit = l,
                      !.total = total, !.total_pages = total_pages,
                      !.has_next = (p < total_pages),
                      !.has_prev = (p > 1)]

get_all_documents(page, limit, dbOk) ==
    LET req == [NoReq EXCEPT !.page = page, !.limit = limit, !.dbOk = dbOk]
    IN
    /\ running
    /\ IF ~dbOk
       THEN last' = Response("all", req, 500, "Failed to fetch documents", {"find"}, NoBody)
       ELSE last' = Response("all", req, 200, "", {"find"}, ListBody(page, limit))
    /\ UNCHANGED <<store, now, batches, issued, running>>

\* ---------------------------------------------------------------- /health
health_check(dbOk) ==
    /\ running
    /\ last' = Response("health", [NoReq EXCEPT !.dbOk = dbOk],
                        IF dbOk THEN 200 ELSE 503,
                        IF dbOk THEN "" ELSE "Service unhealthy", {}, NoBody)
    /\ UNCHANGED <<store, now, batches, issued, running>>

\* --------------------------------------------------------- shutdown_event
\* The process stops: no request is served and no background task goes on.
shutdown_event ==
    /\ running
    /\ running' = FALSE
    /\ UNCHANGED <<store, now, batches, issued, last>>

\* ----------------------------------------------------------------- inputs
PdfLower == <<"a", ".", "p", "d", "f">>
PdfUpper == <<"A", ".", "P", "D", "F">>
TxtName == <<"a", ".", "t", "x", "t">>
BarePdf == <<"p", "d", "f">>
PdfTxt == <<"a", ".", "p", "d", "f", ".", "t", "x", "t">>

PdfNames == {PdfLower, PdfUpper}
OtherNames == {TxtName, BarePdf, PdfTxt}

DocText == <<"T">>
DocOk == [raises |-> FALSE, text |-> DocText]
DocFails == {[raises |-> TRUE, text |-> <<>>], [raises |-> FALSE, text |-> <<>>]}

BothKeys == {"name", "email"}
Dept(name, email) == [isdict |-> TRUE, keys |-> BothKeys, name |-> Str(name), email |-> email]

HR == Dept(<<"HR">>, Str(<<"hr@x">>))
Legal == Dept(<<"Legal">>, Str(<<"legal@x">>))
IT == Dept(<<"IT">>, Null)
Ops == Dept(<<"Ops">>, Str(<<>>))
Fin == Dept(<<"Fin">>, Str(<<"fin@x", "\n">>))
NotADict == [isdict |-> FALSE, keys |-> {}, name |-> Null, email |-> Null]
NoEmailKey == [isdict |-> TRUE, keys |-> {"name"}, name |-> Str(<<"HR">>), email |-> Null]
NoNameKey == [isdict |-> TRUE, keys |-> {"email"}, name |-> Null, email |-> Str(<<"hr@x">>)]

SummaryText == <<"-", "S", "\n", "-", "U">>

Llm(departments) ==
    [raises |-> FALSE, parses |-> TRUE, isdict |-> TRUE,
     keys |-> {"summary", "departments"}, summary |-> Str(SummaryText),
     deptsIsList |-> TRUE, departments |-> departments]

GoodLlms == {Llm(<<HR>>), Llm(<<HR, IT>>)}

BadLlms ==
    {[Llm(<<>>) EXCEPT !.raises = TRUE],
     [Llm(<<>>) EXCEPT !.parses = FALSE],
     [Llm(<<>>) EXCEPT !.isdict = FALSE],
     [Llm(<<HR>>) EXCEPT !.keys = {"departments"}],
     [Llm(<<HR>>) EXCEPT !.keys = {"summary"}],
     [Llm(<<HR>>) EXCEPT !.summary = Num],
     [Llm(<<HR>>) EXCEPT !.summary = Null],
     [Llm(<<>>) EXCEPT !.deptsIsList = FALSE],
     Llm(<<HR, NotADict>>),
     Llm(<<NoEmailKey>>),
     Llm(<<HR, NoNameKey>>)}

\* the /upload requests of the service specification, as
\* <<filename, extraction service, completion service, insert succeeds>>
UploadRequests ==
    (OtherNames \X {DocOk} \X {Llm(<<HR>>)} \X {TRUE})
        \cup ({PdfLower} \X DocFails \X {Llm(<<HR>>)} \X {TRUE})
        \cup ({PdfLower} \X {DocOk} \X BadLlms \X {TRUE})
        \cup (PdfNames \X {DocOk} \X GoodLlms \X BOOLEAN)

\* the department lists of the mail specification
MailEntries == {HR, Legal, IT, Ops, Fin}
MailLists == UNION {[1..n -> MailEntries] : n \in 0..MaxDepts}

MalformedIds == {<<"a", "b", "c">>, [NewObjectId(1) EXCEPT ![2] = "x"]}
WellFormedIds ==
    {NewObjectId(1), UpperStr(NewObjectId(1)), NewObjectId(2), NewObjectId(MaxRecords + 1)}

W(n) == <<ToString(n)>>

FewWords == W(1) \o <<" ">> \o W(2)
ReplyOk == [raises |-> FALSE, content |-> FewWords]
ReplyFails == [raises |-> TRUE, content |-> <<>>]

\* the /chat requests of the service specification, as
\* <<identifier, completion service, find_one succeeds>>
ChatRequests ==
    ((WellFormedIds \cup MalformedIds) \X {ReplyOk} \X {TRUE})
        \cup {<<NewObjectId(1), ReplyFails, TRUE>>, <<NewObjectId(1), ReplyOk, FALSE>>}

\* the /all requests of the service specification, as <<page, limit, db up>>
ListRequests ==
    ((0..2) \X {1, DefaultLimit} \X {TRUE}) \cup {<<1, DefaultLimit, FALSE>>}

\* ---------------------------------------------------------- specification
Next ==
    \/ \E u \in UploadRequests : upload_pdf(u[1], u[2], u[3], u[4])
    \/ \E b \in 1..Len(batches), ok \in BOOLEAN : send_emails_async(b, ok)
    \/ \E c \in ChatRequests : chat(c[1], c[2], c[3])
    \/ \E g \in ListRequests : get_all_documents(g[1], g[2], g[3])
    \/ \E ok \in BOOLEAN : health_check(ok)
    \/ shutdown_event

Spec == Init /\ [][Next]_vars

\* ------------------------------------------------------ mail specification
\* One upload with any department list of MailLists, and its background task.
NextMail ==
    \/ \E ds \in MailLists :
          Len(store) < 1 /\ upload_pdf(PdfLower, DocOk, Llm(ds), TRUE)
    \/ \E b \in 1..Len(batches), ok \in BOOLEAN : send_emails_async(b, ok)
    \/ shutdown_event

SpecMail == Init /\ [][NextMail]_vars

\* ---------------------------------------------------- states with records
\* The state after n uploads of a document without departments, each
\* background task having returned, and a health check.
Uploaded(n) ==
    /\ store = [i \in 1..n |->
                  Document(NewObjectId(i), PdfLower, DocText, SummaryText, <<>>, i, <<>>)]
    /\ now = n + 1
    /\ batches = [i \in 1..n |-> [Batch(NewObjectId(i), <<>>) EXCEPT !.status = "done"]]
    /\ issued = {UploadBody(PdfLower, <<>>, SummaryText, NewObjectId(i)) : i \in 1..n}
    /\ last = Response("health", [NoReq EXCEPT !.dbOk = TRUE], 200, "", {}, NoBody)
    /\ running = TRUE

\* ------------------------------------------------------ chat specification
\* /chat on a stored record, over the replies of the completion service:
\* n words, separated by sep, with pad on both sides.
RECURSIVE WordsFrom(_, _, _)
WordsFrom(k, n, sep) ==
    IF k > n THEN <<>>
    ELSE IF k = n THEN W(k)
    ELSE W(k) \o sep \o WordsFrom(k + 1, n, sep)

MkAnswer(n, sep, pad) == pad \o WordsFrom(1, n, sep) \o pad

Separators == {<<" ">>, <<"\n", " ">>}
Pads == {<<>>, <<" ", "\t">>}

Answers ==
    {MkAnswer(n, sep, pad) : n \in 0..MaxAnswerWords, sep \in Separators, pad \in Pads}

InitChat == Uploaded(1)

NextChat ==
    \E a \in Answers : chat(NewObjectId(1), [raises |-> FALSE, content |-> a], TRUE)

SpecChat == InitChat /\ [][NextChat]_vars

\* --------------------------------------------------- listing specification
\* /all over stores of up to MaxListed records
ListLimits == {-1, 0, 1, 2, DefaultLimit, MaxLimit - 1, MaxLimit, MaxLimit + 1}

InitList == \E n \in 0..MaxListed : Uploaded(n)

NextList ==
    \E p \in (-1)..MaxPage, l \in ListLimits : get_all_documents(p, l, TRUE)

SpecList == InitList /\ [][NextList]_vars

\* ================================================================= claims
\* a name that ends in ".pdf" in any letter case
EndsInPdfAnyCase(f) ==
    /\ Len(f) >= 4
    /\ f[Len(f) - 3] = "."
    /\ f[Len(f) - 2] \in {"p", "P"}
    /\ f[Len(f) - 1] \in {"d", "D"}
    /\ f[Len(f)] \in {"f", "F"}

\* an /upload request has just been answered
UploadAnswered == last' # last /\ last'.op = "upload"

\* C1: a record is inserted by an /upload request if and only if the request
\* ends with a success response; a request that ends with an error leaves
\* the store as it was.
C1_NoPartialPersistence ==
    [][UploadAnswered => ((store' # store) <=> (last'.status = 200))]_vars

\* C2: an /upload whose filename does not end in ".pdf" (in any letter case)
\* is answered 400 and calls no service, writes nothing and schedules no
\* email task; a filename ending in ".pdf" in any case is not answered 400.
C2_NonPdfRejected ==
    [][UploadAnswered =>
         IF ~EndsInPdfAnyCase(last'.req.filename)
         THEN /\ last'.status = 400
              /\ last'.calls = {}
              /\ UNCHANGED <<store, now, batches, issued>>
         ELSE last'.status # 400]_vars

C2_Witness ==
    /\ last.op = "upload"
    /\ last.req.filename = PdfTxt
    /\ last.status = 400
    /\ Len(store) > 0
    /\ \E i \in 1..Len(store) : store[i].filename = PdfUpper

\* C3: a successful upload adds exactly one record, whose identifier is the
\* one returned; records are never changed or removed, so the identifier
\* keeps resolving: /chat with it never answers 404 and for every page size
\* the record is on some page of /all with the filename, summary and
\* departments that were returned.
Resolves(r) ==
    /\ Cardinality({i \in 1..Len(store) : store[i].id = r.mongo_id}) = 1
    /\ \A reply \in {ReplyOk, ReplyFails}, dbOk \in BOOLEAN :
          ChatStatus(r.mongo_id, reply, dbOk) # 404
    /\ ChatStatus(r.mongo_id, ReplyOk, TRUE) = 200
    /\ \A l \in {1, DefaultLimit} :
          \E p \in 1..Len(store) :
             LET data == ListBody(p, l).data
             IN \E k \in 1..Len(data) :
                   /\ data[k].id = r.mongo_id
                   /\ data[k].filename = r.filename
                   /\ data[k].summary = r.summary
                   /\ data[k].departments = r.departments

C3_IdentifierResolves ==
    /\ [](\A r \in issued : Resolves(r))
    /\ [][/\ Len(store') >= Len(store)
          /\ SubSeq(store', 1, Len(store)) = store
          /\ issued \subseteq issued'
          /\ (UploadAnswered /\ last'.status = 200) =>
                /\ Len(store') = Len(store) + 1
                /\ store'[Len(store')].id = last'.body.mongo_id
                /\ last'.body \in issued']_vars

C3_Witness ==
    /\ Len(store) = 2
    /\ \E r \in issued : r.mongo_id = store[1].id
    /\ last.op = "chat"
    /\ last.req.mongo_id = store[1].id
    /\ last.status = 200

\* C4: an upload whose extraction succeeds and whose model output is
\* well-formed (a string summary, a list of dicts with a string name and an
\* email that is a string or null) is answered with a success whose
\* departments are the model's list, and a record with that list is stored.
WellFormedOutput(llm) ==
    /\ ~llm.raises /\ llm.parses /\ llm.isdict
    /\ llm.keys = {"summary", "departments"}
    /\ llm.summary.t = "str"
    /\ llm.deptsIsList
    /\ \A i \in 1..Len(llm.departments) :
          /\ llm.departments[i].isdict
          /\ llm.departments[i].keys = {"name", "email"}
          /\ llm.departments[i].name.t = "str"
          /\ llm.departments[i].email.t \in {"str", "null"}

C4_NullEmailAccepted ==
    (/\ last.op = "upload"
     /\ EndsInPdfAnyCase(last.req.filename)
     /\ ~last.req.docai.raises /\ last.req.docai.text # <<>>
     /\ WellFormedOutput(last.req.llm)
     /\ last.req.insertOk)
    => /\ last.status = 200
       /\ last.body.departments = last.req.llm.departments
       /\ \E i \in 1..Len(store) :
             /\ store[i].id = last.body.mongo_id
             /\ store[i].departments = last.req.llm.departments

\* C5: the notification list has exactly one entry for every department
\* whose email is non-null, in department order, with the department's
\* email, name, subject and the summary, and none for a null email.
\* (As amended: for every department whose email is a non-empty string.)
NotificationsFor(doc, wanted(_)) ==
    LET ds == doc.departments
        idx == {i \in 1..Len(ds) : wanted(ds[i].email)}
        rank(i) == Cardinality({j \in idx : j <= i})
    IN /\ Len(doc.email_data) = Cardinality(idx)
       /\ \A i \in idx :
             doc.email_data[rank(i)] =
               [department |-> ds[i].name,
                summary |-> doc.summary,
                subject |-> <<"Notice Summary for ">> \o ds[i].name.s
                              \o <<": ">> \o doc.filename,
                to |-> ds[i].email]

NonNull(v) == v # Null
NonEmpty(v) == v # Null /\ v # Str(<<>>)

C5_OnePerNonNullEmail ==
    \A i \in 1..Len(store) : NotificationsFor(store[i], NonNull)

C5_OnePerNonEmptyEmail ==
    \A i \in 1..Len(store) : NotificationsFor(store[i], NonEmpty)

C5_Witness ==
    \E i \in 1..Len(store) :
        /\ store[i].departments = <<IT, HR>>
        /\ Len(store[i].email_data) = 1
        /\ store[i].email_data[1].to = HR.email

\* C6: a /chat request whose identifier matches no stored record, whatever
\* the identifier string is, is answered 404 without a call of the language
\* model.
C6_UnknownIdIs404 ==
    (/\ last.op = "chat"
     /\ last.req.dbOk
     /\ ~\E i \in 1..Len(store) : store[i].id = LowerStr(last.req.mongo_id))
    => /\ last.status = 404
       /\ "llm" \notin last.calls

\* C7: the response of an accepted upload is produced before any email of
\* its batch is attempted, and no step of the dispatcher, whatever the
\* outcome of a send, changes the response, turns it into an error or
\* touches the stored record.
C7_ResponseBeforeEmails ==
    [][/\ Len(batches') >= Len(batches)
       /\ Len(batches') > Len(batches) =>
             /\ Len(batches') = Len(batches) + 1
             /\ batches'[Len(batches')].attempts = <<>>
             /\ batches'[Len(batches')].status = "running"
             /\ UploadAnswered
             /\ last'.status = 200
             /\ last'.body.mongo_id = batches'[Len(batches')].id
       /\ \A b \in 1..Len(batches) :
             batches'[b] # batches[b] =>
                /\ UNCHANGED <<store, issued, last>>
                /\ \E r \in issued : r.mongo_id = batches[b].id]_vars

C7_Witness ==
    \E b \in 1..Len(batches) :
        /\ batches[b].attempts # <<>>
        /\ batches[b].attempts[1].outcome = "failed"
        /\ last.op = "upload"
        /\ last.status = 200
        /\ last.body.mongo_id = batches[b].id

ListingWith(l) ==
    LET p == IF last.req.page > 1 THEN last.req.page ELSE 1
        n == Len(store)
        b == last.body
        first == (p - 1) * l
        count == IF first >= n THEN 0 ELSE IF first + l <= n THEN l ELSE n - first
    IN /\ b.page = p
       /\ b.limit = l
       /\ b.total = n
       /\ b.total_pages * l >= n
       /\ (b.total_pages - 1) * l < n
       /\ b.has_next = (p < b.total_pages)
       /\ b.has_prev = (p > 1)
       /\ Len(b.data) = count
       /\ \A k \in 1..Len(b.data) :
             /\ \E i \in 1..n : store[i] = b.data[k]
             /\ Cardinality({i \in 1..n : store[i].timestamp > b.data[k].timestamp})
                   = first + k - 1

Listed == last.op = "all" /\ last.status = 200

C9_LimitClampedInto1To50 ==
    Listed =>
       ListingWith(IF last.req.limit < 1 THEN 1
                   ELSE IF last.req.limit > 50 THEN 50 ELSE last.req.limit)

C9_LimitDefaultedBelow1 ==
    Listed =>
       ListingWith(IF last.req.limit < 1 THEN 5
                   ELSE IF last.req.limit > 50 THEN 50 ELSE last.req.limit)

C9_Witness ==
    /\ Listed
    /\ Len(store) = 12
    /\ last.req.page = 2
    /\ last.req.limit = 5
    /\ Len(last.body.data) = 5
    /\ last.body.total_pages = 3
    /\ last.body.has_next
    /\ last.body.has_prev

\* C10: the answer of /chat on a stored record has at most 30 words; a reply
\* of more than 30 words is returned as its first 30 words joined by single
\* spaces, and a reply of 30 words or fewer is returned unchanged but for
\* the whitespace stripped from its two ends.
NumWords(s) == Cardinality(WordStarts(s))

SingleSpaced(s) ==
    \A i \in 1..Len(s) :
        s[i] \in Whitespace =>
           /\ s[i] = " "
           /\ 1 < i /\ i < Len(s)
           /\ s[i - 1] \notin Whitespace

StrippedOf(s, a) ==
    \E i \in 0..Len(s) :
        /\ i + Len(a) <= Len(s)
        /\ SubSeq(s, i + 1, i + Len(a)) = a
        /\ \A k \in (1..i) \cup ((i + Len(a) + 1)..Len(s)) : s[k] \in Whitespace
        /\ a # <<>> => (a[1] \notin Whitespace /\ a[Len(a)] \notin Whitespace)

C10_AtMost30Words ==
    (last.op = "chat" /\ last.status = 200) =>
       LET content == last.req.reply.content
           answer == last.body.answer
       IN /\ NumWords(answer) <= 30
          /\ IF NumWords(content) > 30
             THEN /\ SingleSpaced(answer)
                  /\ Split(answer) = SubSeq(Split(content), 1, 30)
             ELSE StrippedOf(content, answer)

C10_Witness ==
    /\ last.op = "chat"
    /\ last.status = 200
    /\ NumWords(last.req.reply.content) = 32
    /\ NumWords(last.body.answer) = 30
    /\ \E i \in 1..Len(last.req.reply.content) : last.req.reply.content[i] = "\n"

====
